---- MODULE Spec2Model ----
(***************************************************************************)
(* Model of the NeuroInsights mock-EEG backend: the synthetic signal       *)
(* generator (core/mock_data/generators.py, patterns.py), the data service *)
(* (services/data_service.py) and the time-period parser of the chat       *)
(* routes (api/routes/chat.py).                                            *)
(*                                                                         *)
(* Conventions.  A datetime is an integer number of seconds since a Monday *)
(* midnight, a timedelta an integer number of seconds.  A percentage that  *)
(* the code rounds to one decimal is kept in tenths of a percent (33.3 is  *)
(* 333).  A band intensity is kept in thousandths (0.75 is 750).  A Python *)
(* list is a sequence; the 0-based index i of the code is i + 1 here.      *)
(* A data point carries its time, state and activity; band values are      *)
(* modelled by GenerateStateData.                                          *)
(***************************************************************************)
EXTENDS Integers, Sequences, FiniteSets, TLC

VARIABLES
    now,         \* datetime.now(): the wall clock of the process
    generators,  \* MockDataProvider.generators: user id -> generator (bias, random source)
    call,        \* the operation last invoked, with its arguments and its position
    ret,         \* what that operation returned
    signal,      \* a generator's bias and the band values it produced last
    random_state, \* the process-wide source behind random.choice: it changes in
                 \* every operation that draws from it
    threads,     \* the get_generator calls in progress, one per thread
    handed,      \* every (user id, bias) a get_generator call has returned
    llm          \* LLMService.client

vars == <<now, generators, call, ret, signal, random_state, threads, handed, llm>>

----------------------------------------------------------------------------
(* Bounds of the model *)

MaxTransitions == 1   \* state transitions drawn within one custom session
MaxTicks == 1         \* how many times the clock advances
MaxDays == 45         \* largest N tried in "last N days"

----------------------------------------------------------------------------
(* Units and arithmetic helpers *)

Minute == 60
Hour == 3600
Day == 86400

None == "None"

Max(a, b) == IF a >= b THEN a ELSE b
Min(a, b) == IF a <= b THEN a ELSE b

\* int(x) of Python for x = num / den, den > 0: truncation toward zero
IntTrunc(num, den) == IF num >= 0 THEN num \div den ELSE -((-num) \div den)

\* round(x) of Python for x = num / den, den > 0: nearest, ties to even
RoundHalfEven(num, den) ==
    LET q == num \div den
        r == num % den
    IN  IF 2 * r > den \/ (2 * r = den /\ q % 2 = 1) THEN q + 1 ELSE q

\* round(count / total * 100, 1), in tenths of a percent.  The code works in
\* binary floating point; the exact quotient modelled here differs from it
\* only where the float lands on the other side of a rounding boundary.
Percent10(count, total) == RoundHalfEven(count * 1000, total)

RECURSIVE SeqSum(_)
SeqSum(s) == IF s = <<>> THEN 0 ELSE Head(s) + SeqSum(Tail(s))

----------------------------------------------------------------------------
(* patterns.py: the state catalog and the scenario catalog *)

Bands == <<"delta", "theta", "alpha", "beta", "gamma">>

COGNITIVE_STATES ==
    [ deep_focus      |-> [delta |-> 100, theta |-> 200, alpha |-> 150, beta |-> 750, gamma |-> 550, fluctuation |-> FALSE],
      relaxed         |-> [delta |-> 150, theta |-> 400, alpha |-> 800, beta |-> 250, gamma |-> 200, fluctuation |-> FALSE],
      stressed        |-> [delta |-> 100, theta |-> 150, alpha |-> 100, beta |-> 900, gamma |-> 400, fluctuation |-> FALSE],
      creative_flow   |-> [delta |-> 150, theta |-> 700, alpha |-> 650, beta |-> 450, gamma |-> 500, fluctuation |-> FALSE],
      drowsy          |-> [delta |-> 400, theta |-> 750, alpha |-> 450, beta |-> 200, gamma |-> 150, fluctuation |-> FALSE],
      distracted      |-> [delta |-> 200, theta |-> 350, alpha |-> 400, beta |-> 500, gamma |-> 300, fluctuation |-> TRUE],
      neutral         |-> [delta |-> 250, theta |-> 350, alpha |-> 450, beta |-> 400, gamma |-> 300, fluctuation |-> FALSE],
      meditative_deep |-> [delta |-> 300, theta |-> 800, alpha |-> 750, beta |-> 150, gamma |-> 250, fluctuation |-> FALSE] ]

StateNames == DOMAIN COGNITIVE_STATES

Seg(t, s, a, d) == [time |-> t, state |-> s, activity |-> a, duration |-> d]

SCENARIOS ==
    [ typical_workday |->
        [ duration |-> 480,
          timeline |-> << Seg(0, "neutral", "morning_emails", 20),
                          Seg(20, "deep_focus", "coding", 90),
                          Seg(110, "distracted", "coding", 10),
                          Seg(120, "relaxed", "break", 15),
                          Seg(135, "neutral", "meeting", 60),
                          Seg(195, "relaxed", "lunch", 45),
                          Seg(240, "deep_focus", "coding", 75),
                          Seg(315, "distracted", "coding", 15),
                          Seg(330, "neutral", "email", 30),
                          Seg(360, "creative_flow", "brainstorming", 45),
                          Seg(405, "neutral", "wrap_up", 30),
                          Seg(435, "drowsy", "email", 45) >> ],
      meditation_session |->
        [ duration |-> 20,
          timeline |-> << Seg(0, "stressed", "meditation", 3),
                          Seg(3, "neutral", "meditation", 2),
                          Seg(5, "relaxed", "meditation", 5),
                          Seg(10, "meditative_deep", "meditation", 8),
                          Seg(18, "relaxed", "meditation", 2) >> ],
      creative_work |->
        [ duration |-> 120,
          timeline |-> << Seg(0, "neutral", "brainstorming", 15),
                          Seg(15, "creative_flow", "writing", 45),
                          Seg(60, "distracted", "writing", 10),
                          Seg(70, "relaxed", "break", 10),
                          Seg(80, "creative_flow", "writing", 40) >> ],
      stressful_day |->
        [ duration |-> 480,
          timeline |-> << Seg(0, "stressed", "urgent_email", 30),
                          Seg(30, "stressed", "meeting", 60),
                          Seg(90, "stressed", "problem_solving", 90),
                          Seg(180, "neutral", "lunch", 20),
                          Seg(200, "stressed", "coding", 120),
                          Seg(320, "distracted", "coding", 30),
                          Seg(350, "stressed", "meeting", 60),
                          Seg(410, "drowsy", "email", 70) >> ],
      productive_morning |->
        [ duration |-> 180,
          timeline |-> << Seg(0, "neutral", "planning", 15),
                          Seg(15, "deep_focus", "coding", 90),
                          Seg(105, "relaxed", "break", 15),
                          Seg(120, "deep_focus", "coding", 60) >> ] ]

ScenarioNames == DOMAIN SCENARIOS

----------------------------------------------------------------------------
(* generators.py: the session builder *)

\* MockBrainDataGenerator._get_timeline_segment: linear scan, first match
\* wins, the last segment when no interval contains the minute
\* The scan with every interval taken as (time, time + duration]
RECURSIVE ScanTimelineShifted(_, _, _)
ScanTimelineShifted(minute, timeline, i) ==
    IF i > Len(timeline) THEN timeline[Len(timeline)]
    ELSE IF timeline[i].time < minute /\ minute <= timeline[i].time + timeline[i].duration
         THEN timeline[i]
         ELSE ScanTimelineShifted(minute, timeline, i + 1)

RECURSIVE ScanTimeline(_, _, _)
ScanTimeline(minute, timeline, i) ==
    IF i > Len(timeline) THEN timeline[Len(timeline)]
    ELSE IF timeline[i].time <= minute /\ minute < timeline[i].time + timeline[i].duration
         THEN timeline[i]
         ELSE ScanTimeline(minute, timeline, i + 1)

GetTimelineSegment(minute, timeline) == ScanTimeline(minute, timeline, 1)

\* MockBrainDataGenerator.generate_session_from_scenario: the data_points of
\* the session, one per minute of the scenario's duration
ScenarioPoints(scenario_name, start_time) ==
    LET scenario == SCENARIOS[scenario_name]
    IN  [ m \in 1..scenario.duration |->
            LET segment == GetTimelineSegment(m - 1, scenario.timeline)
            IN  [ time     |-> start_time + (m - 1) * Minute,
                  state    |-> segment.state,
                  activity |-> segment.activity ] ]

\* A transition that can lead to any state of the catalog
TransitionStatesAnywhere(current_state) == StateNames

\* MockBrainDataGenerator._get_transition_state: the states rng.choice can return
TransitionStates(current_state) ==
    CASE current_state = "deep_focus"    -> {"neutral", "distracted", "stressed"}
      [] current_state = "relaxed"       -> {"neutral", "drowsy", "creative_flow"}
      [] current_state = "stressed"      -> {"neutral", "distracted", "deep_focus"}
      [] current_state = "creative_flow" -> {"relaxed", "neutral", "distracted"}
      [] current_state = "drowsy"        -> {"neutral", "relaxed"}
      [] current_state = "distracted"    -> {"neutral", "deep_focus", "stressed"}
      [] current_state = "neutral"       -> {"deep_focus", "relaxed", "distracted"}
      [] OTHER                           -> {"neutral"}

\* The loop of generate_custom_session: the state sequences of n points whose
\* first point has state cur, with at most k draws of rng.random() below 0.05
RECURSIVE StateWalks(_, _, _)
StateWalks(n, cur, k) ==
    IF n <= 0 THEN {<<>>}
    ELSE IF n = 1 THEN {<<cur>>}
    ELSE {<<cur>> \o w : w \in StateWalks(n - 1, cur, k)}
         \cup (IF k = 0 THEN {}
               ELSE UNION { {<<cur>> \o w : w \in StateWalks(n - 1, nxt, k - 1)} :
                            nxt \in TransitionStates(cur) })

\* MockBrainDataGenerator.generate_custom_session: the data_points the call
\* can return (custom points have no 'activity' key)
CustomPoints(duration_minutes, primary_state, start_time, include_transitions) ==
    { [ m \in 1..Len(w) |-> [ time     |-> start_time + (m - 1) * Minute,
                              state    |-> w[m],
                              activity |-> None ] ] :
      w \in StateWalks(duration_minutes, primary_state,
                       IF include_transitions THEN MaxTransitions ELSE 0) }

----------------------------------------------------------------------------
(* data_service.py: get_brain_data *)

\* random.choice(scenarios) of get_brain_data
ServiceScenariosWithMeditation ==
    {"typical_workday", "productive_morning", "creative_work", "meditation_session"}

ServiceScenarios == {"typical_workday", "productive_morning", "creative_work"}

\* random.choice(primary_states) of get_brain_data
PrimaryStates == {"deep_focus", "relaxed", "creative_flow", "neutral"}

\* The duration without the minimum of one minute
DurationMinutesUnfloored(start_time, end_time) ==
    IntTrunc(end_time - start_time, Minute)

\* duration_minutes of get_brain_data: int(seconds / 60), at least 1
DurationMinutes(start_time, end_time) ==
    LET duration_minutes == IntTrunc(end_time - start_time, Minute)
    IN  IF duration_minutes < 1 THEN 1 ELSE duration_minutes

\* start_time.date() == datetime.now().date()
IsToday(start_time, clock) == (start_time \div Day) = (clock \div Day)

\* The loop with a final chunk shorter than the window left out
RECURSIVE AggregateFromWholeWindows(_, _, _)
AggregateFromWholeWindows(data_points, window_minutes, i) ==
    IF i + window_minutes > Len(data_points) THEN <<>>
    ELSE LET window == SubSeq(data_points, i + 1, i + window_minutes)
         IN  << [ time     |-> window[1].time,
                  state    |-> window[(Len(window) \div 2) + 1].state,
                  activity |-> None ] >>
             \o AggregateFromWholeWindows(data_points, window_minutes, i + window_minutes)

\* The loop with the label taken at the middle of the full window size, or
\* at the last point of a chunk that is too short for it
RECURSIVE AggregateFromWindowMiddle(_, _, _)
AggregateFromWindowMiddle(data_points, window_minutes, i) ==
    IF i >= Len(data_points) THEN <<>>
    ELSE LET window == SubSeq(data_points, i + 1, Min(i + window_minutes, Len(data_points)))
         IN  << [ time     |-> window[1].time,
                  state    |-> window[Min((window_minutes \div 2) + 1, Len(window))].state,
                  activity |-> None ] >>
             \o AggregateFromWindowMiddle(data_points, window_minutes, i + window_minutes)

\* DataService._aggregate_data: the while loop from index i (0-based) on
RECURSIVE AggregateFrom(_, _, _)
AggregateFrom(data_points, window_minutes, i) ==
    IF i >= Len(data_points) THEN <<>>
    ELSE LET window == SubSeq(data_points, i + 1, Min(i + window_minutes, Len(data_points)))
         IN  << [ time     |-> window[1].time,
                  state    |-> window[(Len(window) \div 2) + 1].state,
                  activity |-> None ] >>
             \o AggregateFrom(data_points, window_minutes, i + window_minutes)

WindowMinutes(granularity) ==
    CASE granularity = "5min"  -> 5
      [] granularity = "15min" -> 15
      [] granularity = "hour"  -> 60
      [] OTHER                 -> 5

AggregateData(data_points, granularity) ==
    IF granularity = "minute" \/ data_points = <<>> THEN data_points
    ELSE AggregateFrom(data_points, WindowMinutes(granularity), 0)

\* The session['data_points'] get_brain_data can hold before the granularity
\* is applied: a scenario of the day (truncated to the window when the window
\* is shorter), or a custom session around a random primary state
SessionPoints(start_time, end_time, clock) ==
    LET duration_minutes == DurationMinutes(start_time, end_time)
    IN  IF IsToday(start_time, clock) /\ duration_minutes > 60
        THEN { IF duration_minutes < SCENARIOS[scenario_name].duration
               THEN SelectSeq(ScenarioPoints(scenario_name, start_time),
                              LAMBDA p : p.time < end_time)
               ELSE ScenarioPoints(scenario_name, start_time) :
               scenario_name \in ServiceScenarios }
        ELSE UNION { CustomPoints(duration_minutes, primary_state, start_time, TRUE) :
                     primary_state \in PrimaryStates }

\* DataService.get_brain_data: the lists the call can return
BrainData(start_time, end_time, granularity, clock) ==
    { IF granularity # "minute" THEN AggregateData(session, granularity) ELSE session :
      session \in SessionPoints(start_time, end_time, clock) }

----------------------------------------------------------------------------
(* data_service.py: state distribution and cognitive score *)

CountedStates ==
    <<"deep_focus", "relaxed", "stressed", "creative_flow", "drowsy", "distracted", "neutral">>

CountedStateSet == {CountedStates[i] : i \in DOMAIN CountedStates}

StateCount(data_points, state) ==
    Cardinality({i \in DOMAIN data_points : data_points[i].state = state})

DefaultDistribution ==
    [ deep_focus |-> 250, relaxed |-> 200, stressed |-> 100, creative_flow |-> 150,
      drowsy |-> 100, distracted |-> 100, neutral |-> 100 ]

\* The distribution without the fallback: every share is zero when there is
\* nothing to count
StateDistributionNoFallback(data_points) ==
    [ state \in CountedStateSet |->
        IF Len(data_points) > 0
        THEN Percent10(StateCount(data_points, state), Len(data_points))
        ELSE 0 ]

\* DataService.get_state_distribution, after its get_brain_data call
StateDistribution(data_points) ==
    LET total == Len(data_points)
    IN  IF total > 0
        THEN [ state \in CountedStateSet |-> Percent10(StateCount(data_points, state), total) ]
        ELSE DefaultDistribution

\* score of get_cognitive_score before int() and the clamp, in hundredths
RawScore100(distribution) ==
    5000 + 5 * (distribution["deep_focus"] + distribution["creative_flow"])
         - 8 * distribution["stressed"]
         - 6 * distribution["drowsy"]
         - 4 * distribution["distracted"]

\* The clamp without its lower end
ClampScoreNoFloor(score100) == Min(100, IntTrunc(score100, 100))

\* max(0, min(100, int(score))): int() truncates toward zero.  (On the float
\* the code holds, a value a rounding error below an integer truncates to
\* the integer below.)
ClampScore(score100) == Max(0, Min(100, IntTrunc(score100, 100)))

\* DataService.get_cognitive_score: data_points is the list of its own
\* get_brain_data call, dist_points the list drawn by get_state_distribution
CognitiveScore(data_points, dist_points) ==
    IF data_points = <<>> THEN 70
    ELSE ClampScore(RawScore100(StateDistribution(dist_points)))

----------------------------------------------------------------------------
(* data_service.py: get_activities *)

\* DataService._infer_activity_from_state
InferActivityFromState(state) ==
    CASE state = "deep_focus"      -> "focus_session"
      [] state = "creative_flow"   -> "creative_work"
      [] state = "relaxed"         -> "restorative_break"
      [] state = "stressed"        -> "high_pressure_task"
      [] state = "drowsy"          -> "fatigue_period"
      [] state = "distracted"      -> "context_switching"
      [] state = "neutral"         -> "light_tasking"
      [] state = "meditative_deep" -> "meditation"
      [] OTHER                     -> "unspecified_activity"

\* The normalisation loop of get_activities, for one point
NormalizePoint(point) ==
    LET state == IF point.state = None THEN "unknown" ELSE point.state
    IN  IF point.activity = None
        THEN [ time |-> point.time, state |-> state,
               activity |-> InferActivityFromState(state), source |-> "inferred" ]
        ELSE [ time |-> point.time, state |-> state,
               activity |-> point.activity, source |-> "scenario" ]

\* One step of normalized_points.sort(key=time), a stable sort: the point
\* goes behind every point that is not later than it
RECURSIVE InsertByTime(_, _)
InsertByTime(sorted, point) ==
    IF sorted = <<>> \/ sorted[Len(sorted)].time <= point.time
    THEN Append(sorted, point)
    ELSE Append(InsertByTime(SubSeq(sorted, 1, Len(sorted) - 1), point), sorted[Len(sorted)])

\* The points lo..hi taken in order, sorted being the result so far.  The
\* range is halved to keep the evaluation shallow; sorted = sorted has the
\* left half evaluated before the right half starts.
RECURSIVE SortFold(_, _, _, _)
SortFold(points, sorted, lo, hi) ==
    IF sorted # sorted \/ lo > hi THEN sorted
    ELSE IF lo = hi THEN InsertByTime(sorted, points[lo])
    ELSE LET mid == (lo + hi) \div 2
         IN  SortFold(points, SortFold(points, sorted, lo, mid), mid + 1, hi)

SortByTime(points) == SortFold(points, <<>>, 1, Len(points))

\* segment["state_counts"][state] += 1 on a dict that keeps insertion order:
\* a sequence of [state, count] entries
RECURSIVE BumpCount(_, _)
BumpCount(state_counts, state) ==
    IF state_counts = <<>> THEN << [state |-> state, count |-> 1] >>
    ELSE IF Head(state_counts).state = state
         THEN << [state |-> state, count |-> Head(state_counts).count + 1] >> \o Tail(state_counts)
         ELSE << Head(state_counts) >> \o BumpCount(Tail(state_counts), state)

\* The scan that lets a later entry with an equal count win
RECURSIVE DominantFromLast(_, _, _)
DominantFromLast(state_counts, i, best) ==
    IF i > Len(state_counts) THEN best.state
    ELSE DominantFromLast(state_counts, i + 1,
                          IF state_counts[i].count >= best.count THEN state_counts[i] ELSE best)

\* max(state_counts, key=count, default="unknown"): the first entry, in
\* insertion order, that has the largest count
RECURSIVE DominantFrom(_, _, _)
DominantFrom(state_counts, i, best) ==
    IF i > Len(state_counts) THEN best.state
    ELSE DominantFrom(state_counts, i + 1,
                      IF state_counts[i].count > best.count THEN state_counts[i] ELSE best)

DominantState(state_counts) ==
    IF state_counts = <<>> THEN "unknown"
    ELSE DominantFrom(state_counts, 2, state_counts[1])

\* The duration taken between the first and the last timestamp of a segment
SegmentDurationBetweenStamps(segment) ==
    Max(1, RoundHalfEven(segment.end_time - Minute - segment.start_time, Minute))

\* duration_minutes of finalize_segment: max(1, round(seconds / 60))
SegmentDuration(segment) ==
    Max(1, RoundHalfEven(segment.end_time - segment.start_time, Minute))

EntryCount(state_counts, state) ==
    SeqSum([i \in DOMAIN state_counts |->
              IF state_counts[i].state = state THEN state_counts[i].count ELSE 0])

\* current_segment = None of get_activities
NoSegment == [activity |-> None]

\* The activities.append({...}) of finalize_segment
SegmentEntry(segment, duration_minutes) ==
    LET counted == SeqSum([i \in DOMAIN segment.state_counts |->
                             segment.state_counts[i].count])
        total_state_counts == IF counted = 0 THEN 1 ELSE counted
    IN  [ activity           |-> segment.activity,
          start_time         |-> segment.start_time,
          end_time           |-> segment.end_time,
          duration_minutes   |-> duration_minutes,
          state_distribution |->
              [ i \in DOMAIN segment.state_counts |->
                  [ state   |-> segment.state_counts[i].state,
                    percent |-> Percent10(segment.state_counts[i].count,
                                          total_state_counts) ] ],
          dominant_state     |-> DominantState(segment.state_counts),
          focus_percentage   |->
              Percent10(EntryCount(segment.state_counts, "deep_focus")
                        + EntryCount(segment.state_counts, "creative_flow"),
                        total_state_counts),
          source             |-> segment.activity_source ]

\* finalize_segment without the minimum-duration test
FinalizeSegmentAnyLength(activities, segment, min_duration_minutes) ==
    IF segment.activity = None THEN activities
    ELSE Append(activities, SegmentEntry(segment, SegmentDuration(segment)))

\* get_activities.finalize_segment: the activities list after the call
FinalizeSegment(activities, segment, min_duration_minutes) ==
    IF segment.activity = None THEN activities
    ELSE LET duration_minutes == SegmentDuration(segment)
         IN  IF duration_minutes < Max(1, min_duration_minutes) THEN activities
             ELSE Append(activities, SegmentEntry(segment, duration_minutes))

\* The loop body with a new segment opened one minute before its first point
SegmentStepOpenedEarly(acc, point, end_time, min_duration_minutes) ==
    LET current_segment == acc.current_segment
        minute_end == Min(point.time + Minute, end_time)
    IN  IF current_segment.activity # None /\ point.activity = current_segment.activity
        THEN [ activities      |-> acc.activities,
               current_segment |->
                   [ current_segment EXCEPT
                       !.end_time = minute_end,
                       !.state_counts = BumpCount(@, point.state),
                       !.points_count = @ + 1 ] ]
        ELSE [ activities      |-> FinalizeSegment(acc.activities, current_segment,
                                                   min_duration_minutes),
               current_segment |->
                   [ activity        |-> point.activity,
                     activity_source |-> point.source,
                     start_time      |-> point.time - Minute,
                     end_time        |-> minute_end,
                     state_counts    |-> << [state |-> point.state, count |-> 1] >>,
                     points_count    |-> 1 ] ]

\* The body of the segmentation loop of get_activities for one point; acc
\* holds the activities list and current_segment
SegmentStep(acc, point, end_time, min_duration_minutes) ==
    LET current_segment == acc.current_segment
        minute_end == Min(point.time + Minute, end_time)
    IN  IF current_segment.activity # None /\ point.activity = current_segment.activity
        THEN [ activities      |-> acc.activities,
               current_segment |->
                   [ current_segment EXCEPT
                       !.end_time = minute_end,
                       !.state_counts = BumpCount(@, point.state),
                       !.points_count = @ + 1 ] ]
        ELSE [ activities      |-> FinalizeSegment(acc.activities, current_segment,
                                                   min_duration_minutes),
               current_segment |->
                   [ activity        |-> point.activity,
                     activity_source |-> point.source,
                     start_time      |-> point.time,
                     end_time        |-> minute_end,
                     state_counts    |-> << [state |-> point.state, count |-> 1] >>,
                     points_count    |-> 1 ] ]

\* The loop over the points lo..hi, in order (halved as in SortFold)
RECURSIVE SegmentFold(_, _, _, _, _, _)
SegmentFold(points, acc, lo, hi, end_time, min_duration_minutes) ==
    IF acc # acc \/ lo > hi THEN acc
    ELSE IF lo = hi THEN SegmentStep(acc, points[lo], end_time, min_duration_minutes)
    ELSE LET mid == (lo + hi) \div 2
         IN  SegmentFold(points,
                         SegmentFold(points, acc, lo, mid, end_time, min_duration_minutes),
                         mid + 1, hi, end_time, min_duration_minutes)

\* DataService.get_activities, after its get_brain_data call: normalise,
\* sort, walk the points, then finalize_segment(current_segment)
Activities(data_points, end_time, min_duration_minutes) ==
    IF data_points = <<>> THEN <<>>
    ELSE LET normalized_points ==
                 SortByTime([i \in DOMAIN data_points |-> NormalizePoint(data_points[i])])
             walked == SegmentFold(normalized_points,
                                   [activities |-> <<>>, current_segment |-> NoSegment],
                                   1, Len(normalized_points), end_time, min_duration_minutes)
         IN  FinalizeSegment(walked.activities, walked.current_segment, min_duration_minutes)

----------------------------------------------------------------------------
(* data_service.py: _find_focus_windows *)

IsFocusState(state) == state \in {"deep_focus", "creative_flow"}

\* current_window = None of _find_focus_windows
NoWindow == [start |-> 0, end |-> 0, duration |-> 0]

\* The test with > in place of >=
CloseWindowOver15(focus_windows, current_window) ==
    IF current_window # NoWindow /\ current_window.duration > 15
    THEN Append(focus_windows, current_window)
    ELSE focus_windows

\* if current_window and current_window['duration'] >= 15: append
CloseWindow(focus_windows, current_window) ==
    IF current_window # NoWindow /\ current_window.duration >= 15
    THEN Append(focus_windows, current_window)
    ELSE focus_windows

\* The body of the scan loop of _find_focus_windows for one point; acc holds
\* focus_windows and current_window
FocusStep(acc, point) ==
    IF IsFocusState(point.state)
    THEN [ focus_windows  |-> acc.focus_windows,
           current_window |->
               IF acc.current_window = NoWindow
               THEN [start |-> point.time, end |-> point.time, duration |-> 1]
               ELSE [acc.current_window EXCEPT !.end = point.time, !.duration = @ + 1] ]
    ELSE [ focus_windows  |-> CloseWindow(acc.focus_windows, acc.current_window),
           current_window |-> NoWindow ]

\* The loop over the points lo..hi, in order (halved as in SortFold)
RECURSIVE FocusFold(_, _, _, _)
FocusFold(data_points, acc, lo, hi) ==
    IF acc # acc \/ lo > hi THEN acc
    ELSE IF lo = hi THEN FocusStep(acc, data_points[lo])
    ELSE LET mid == (lo + hi) \div 2
         IN  FocusFold(data_points, FocusFold(data_points, acc, lo, mid), mid + 1, hi)

\* The scan loop, then "add last window if exists"
FocusScan(data_points) ==
    LET scanned == FocusFold(data_points,
                             [focus_windows |-> <<>>, current_window |-> NoWindow],
                             1, Len(data_points))
    IN  CloseWindow(scanned.focus_windows, scanned.current_window)

\* DataService._find_focus_windows, after its get_brain_data call
FindFocusWindows(data_points) ==
    LET focus_windows == FocusScan(data_points)
        total_focus_time == SeqSum([i \in DOMAIN focus_windows |-> focus_windows[i].duration])
    IN  [ pattern_type     |-> "focus_windows",
          windows          |-> focus_windows,
          total_focus_time |-> total_focus_time,
          avg_window_duration |->
              IF focus_windows = <<>> THEN 0
              ELSE RoundHalfEven(total_focus_time * 10, Len(focus_windows)) ]

----------------------------------------------------------------------------
(* data_service.py: compare_time_periods *)

\* The comparison with period 2 minus period 1 as its changes
ComparisonReversed(period1, period2, dist1, dist2, score1, score2) ==
    [ period1 |-> [ start |-> period1[1], end |-> period1[2],
                    cognitive_score |-> score1, state_distribution |-> dist1 ],
      period2 |-> [ start |-> period2[1], end |-> period2[2],
                    cognitive_score |-> score2, state_distribution |-> dist2 ],
      changes |-> [ cognitive_score_change |-> score2 - score1,
                    focus_change  |-> dist2["deep_focus"] - dist1["deep_focus"],
                    stress_change |-> dist2["stressed"] - dist1["stressed"] ] ]

\* The comparison built from the two distributions and the two scores
Comparison(period1, period2, dist1, dist2, score1, score2) ==
    [ period1 |-> [ start |-> period1[1], end |-> period1[2],
                    cognitive_score |-> score1, state_distribution |-> dist1 ],
      period2 |-> [ start |-> period2[1], end |-> period2[2],
                    cognitive_score |-> score2, state_distribution |-> dist2 ],
      changes |-> [ cognitive_score_change |-> score1 - score2,
                    focus_change  |-> dist1["deep_focus"] - dist2["deep_focus"],
                    stress_change |-> dist1["stressed"] - dist2["stressed"] ] ]

----------------------------------------------------------------------------
(* chat.py: parse_time_period.  A string is a sequence of characters. *)

Digit == <<"0", "1", "2", "3", "4", "5", "6", "7", "8", "9">>

IsDigit(c) == \E d \in DOMAIN Digit : Digit[d] = c

DigitValue(c) == (CHOOSE d \in DOMAIN Digit : Digit[d] = c) - 1

\* sub in period
Contains(period, sub) ==
    \E i \in 0..(Len(period) - Len(sub)) :
        \A j \in 1..Len(sub) : period[i + j] = sub[j]

\* The digits added up instead of read in base 10
RECURSIVE IntOfDigitsSum(_, _)
IntOfDigitsSum(digits, acc) ==
    IF digits = <<>> THEN acc
    ELSE IntOfDigitsSum(Tail(digits), acc + DigitValue(Head(digits)))

\* int(digits) for a string of decimal digits; the empty string is rejected
RECURSIVE IntOfDigits(_, _)
IntOfDigits(digits, acc) ==
    IF digits = <<>> THEN acc
    ELSE IntOfDigits(Tail(digits), 10 * acc + DigitValue(Head(digits)))

\* str(n) for n >= 0
RECURSIVE Str(_)
Str(n) == IF n < 10 THEN <<Digit[n + 1]>> ELSE Str(n \div 10) \o <<Digit[(n % 10) + 1]>>

TODAY == <<"t", "o", "d", "a", "y">>
YESTERDAY == <<"y", "e", "s", "t", "e", "r", "d", "a", "y">>
THIS_WEEK == <<"t", "h", "i", "s", " ", "w", "e", "e", "k">>
LAST_WEEK == <<"l", "a", "s", "t", " ", "w", "e", "e", "k">>
LAST == <<"l", "a", "s", "t">>
DAYS == <<"d", "a", "y", "s">>

\* f"last {n} days"
LastNDays(n) == LAST \o <<" ">> \o Str(n) \o <<" ">> \o DAYS

\* now.replace(hour=0, minute=0, second=0, microsecond=0)
Midnight(t) == t - (t % Day)

\* datetime.weekday(): Monday is 0
Weekday(t) == (t \div Day) % 7

\* Day 0 of the clock is Monday 2026-11-02, this many days after
\* datetime.min (0001-01-01)
EpochOrdinal == 739921

\* The whole days between datetime.min and the clock: now - timedelta(days)
\* raises OverflowError when the result would lie before datetime.min
DaysSinceMin(clock) == EpochOrdinal + (clock \div Day)

\* parse_time_period: the (start, end) pair, or the exception it raises
ParseTimePeriodAt(period, clock) ==
    LET Result(start, end) == [raised |-> None, start |-> start, end |-> end]
    IN  IF period = TODAY THEN Result(Midnight(clock), clock)
        ELSE IF period = YESTERDAY
             THEN Result(Midnight(clock - Day), Midnight(clock - Day) + Day)
        ELSE IF period = THIS_WEEK
             THEN Result(Midnight(clock - Weekday(clock) * Day), clock)
        ELSE IF period = LAST_WEEK
             THEN Result(Midnight(clock - (Weekday(clock) + 7) * Day),
                         Midnight(clock - (Weekday(clock) + 7) * Day) + 7 * Day)
        ELSE IF Contains(period, LAST) /\ Contains(period, DAYS)
             THEN LET digits == SelectSeq(period, IsDigit)
                  IN  IF digits = <<>>
                      THEN [raised |-> "ValueError", start |-> 0, end |-> 0]
                      ELSE LET days == IntOfDigits(digits, 0)
                           IN  IF days > DaysSinceMin(clock)
                               THEN [raised |-> "OverflowError", start |-> 0, end |-> 0]
                               ELSE Result(clock - days * Day, clock)
        ELSE Result(Midnight(clock), clock)

----------------------------------------------------------------------------
(* generators.py: the signal generator, in thousandths *)

BandSet == {Bands[i] : i \in DOMAIN Bands}

\* rng.uniform(0.9, 1.1): the ends of the interval
BiasLevels == {900, 1100}

\* rng.normal(0, noise_level * value): the draw, in tenths of its deviation
NoiseDraws == {-20, 0, 20}

\* rng.normal(0, 0.1) of a fluctuating state: the draw itself
ExtraDraws == {-100, 100}

noise_level == 150

Clamp01(v) == Max(0, Min(1000, v))

BandSum(values) == SeqSum([i \in DOMAIN Bands |-> values[Bands[i]]])

\* MockBrainDataGenerator._generate_state_data with the draws of its rng
GenerateStateData(state, baseline_variation, noise, extra) ==
    LET state_pattern == COGNITIVE_STATES[state]
        base_values == [band \in BandSet |->
                           (state_pattern[band] * baseline_variation[band]) \div 1000]
        noisy_values == [band \in BandSet |->
                           Clamp01(base_values[band]
                                   + IntTrunc(noise[band] * noise_level * base_values[band],
                                              10 * 1000))]
        fluctuated == IF state_pattern.fluctuation
                      THEN [band \in BandSet |-> Clamp01(noisy_values[band] + extra[band])]
                      ELSE noisy_values
        total == BandSum(fluctuated)
    IN  IF total > 0
        THEN [band \in BandSet |-> (fluctuated[band] * Len(Bands) * 400) \div total]
        ELSE fluctuated

NoSignal == [state |-> None]

----------------------------------------------------------------------------
(* The requests tried *)

Users == {"u1", "u2"}

Now0 == 3 * Day + 10 * Hour
TickStep == 15 * Hour

\* Window lengths in seconds: below a minute, a few minutes, around the
\* 15-minute focus threshold, and longer than an hour
ShortSpans == {-60, 0, 30, 60, 90, 180, 300, 360, 660}
FocusSpans == {900, 960}
DaySpans == {3660, 3690, 6480, 7200, 8040, 8100, 10800, 28800, 30000}

Today9(clock) == Midnight(clock) + 9 * Hour

ShortWindows(clock) ==
    {<<Today9(clock), Today9(clock) + d>> : d \in ShortSpans}
    \cup {<<Today9(clock) - Day, Today9(clock) - Day + d>> : d \in {60, 180}}

DayWindows(clock) == {<<Today9(clock), Today9(clock) + d>> : d \in DaySpans}

FocusWindows(clock) == {<<Today9(clock), Today9(clock) + d>> : d \in FocusSpans}

Granularities == {"minute", "5min", "15min", "hour", "day"}

MinDurations == {0, 1, 5, 15}

Threads == {"t1", "t2"}

\* The function names of the TOOLS list offered to the LLM
TOOLS ==
    {"get_brain_data", "get_state_distribution", "compare_time_periods", "find_patterns",
     "get_cognitive_score", "get_activities", "get_baseline"}

\* The function names execute_tool_calls dispatches to a handler
DataTools ==
    {"get_brain_data", "get_state_distribution", "compare_time_periods", "find_patterns",
     "get_cognitive_score", "get_baseline"}

\* Function names an LLM answer can ask for: the declared ones and one more
ToolNames == TOOLS \cup {"get_weather"}

\* The tool_calls of an LLM answer: one or two calls, each with its id, a
\* function name and arguments that are well-formed JSON or not
ToolCallBatches ==
    LET Calls(id) == { [id |-> id, name |-> n, arguments |-> a] :
                       n \in ToolNames, a \in {"json", "malformed"} }
    IN  { <<c>> : c \in Calls("call_1") }
        \cup { <<c, d>> : c \in Calls("call_1"), d \in Calls("call_2") }

NoCall == [op |-> "none"]
NoRet == [raised |-> None]

Idle == call.op = "none"

----------------------------------------------------------------------------
(* Actions *)

\* The constructor with the seed taken from the clock
MockBrainDataGeneratorClockSeeded(user_id, seed) ==
    LET self_seed == now \div Hour
        uniform(k) == 900 + ((self_seed * 131 + k * 57) % 201)
    IN  [ baseline_variation |-> [band \in BandSet |->
                                    uniform(CHOOSE k \in 1..Len(Bands) : Bands[k] = band)],
          rng |-> 0 ]

\* MockBrainDataGenerator.__init__.  The seed is the number written by the
\* first eight hexadecimal digits of the user id ("u1" stands for an id that
\* begins 00000001); numpy's stream is a fixed function of the seed, and the
\* first five draws of it are the bias, in thousandths.  rng tells the states
\* of the random source apart: it changes in every operation that draws.
MockBrainDataGenerator(user_id, seed) ==
    LET derived == CASE user_id = "u1" -> 1 [] user_id = "u2" -> 2
        self_seed == IF seed # None /\ seed # 0 THEN seed ELSE derived
        uniform(k) == 900 + ((self_seed * 131 + k * 57) % 201)
    IN  [ baseline_variation |-> [band \in BandSet |->
                                    uniform(CHOOSE k \in 1..Len(Bands) : Bands[k] = band)],
          rng |-> 0 ]

\* A generator after _generate_state_data has drawn from its random source
Drawn(generator) == [generator EXCEPT !.rng = 1 - @]

\* MockDataProvider.get_generator: the registry after the lookup
GetGenerator(user_id) ==
    IF user_id \in DOMAIN generators
    THEN generators
    ELSE [u \in DOMAIN generators \cup {user_id} |->
            IF u = user_id THEN MockBrainDataGenerator(user_id, None) ELSE generators[u]]

\* The registry after get_brain_data has looked the generator up and a
\* session has been generated with it
UseGenerator(user_id) ==
    [GetGenerator(user_id) EXCEPT ![user_id] = Drawn(@)]

\* DataService.get_brain_data
GetBrainData(user_id, window, granularity) ==
    /\ Idle
    /\ \E session \in SessionPoints(window[1], window[2], now) :
         ret' = [ raised      |-> None,
                  session     |-> session,
                  data_points |-> IF granularity # "minute"
                                  THEN AggregateData(session, granularity)
                                  ELSE session ]
    /\ call' = [ op |-> "get_brain_data", user_id |-> user_id,
                 start_time |-> window[1], end_time |-> window[2],
                 granularity |-> granularity ]
    /\ generators' = UseGenerator(user_id)
    /\ random_state' = 1 - random_state
    /\ UNCHANGED <<now, signal, threads, handed, llm>>

\* DataService.get_state_distribution
GetStateDistribution(user_id, window) ==
    /\ Idle
    /\ \E data_points \in BrainData(window[1], window[2], "minute", now) :
         ret' = [ raised       |-> None,
                  total        |-> Len(data_points),
                  distribution |-> StateDistribution(data_points) ]
    /\ call' = [ op |-> "get_state_distribution", user_id |-> user_id,
                 start_time |-> window[1], end_time |-> window[2] ]
    /\ generators' = UseGenerator(user_id)
    /\ random_state' = 1 - random_state
    /\ UNCHANGED <<now, signal, threads, handed, llm>>

\* One list per answer to "is the list empty": get_cognitive_score uses the
\* list of its own get_brain_data call for that question only
EmptinessCases(lists) ==
    { CHOOSE l \in lists : (l = <<>>) = e : e \in {l = <<>> : l \in lists} }

\* DataService.get_cognitive_score: two get_brain_data calls, the second one
\* inside get_state_distribution
GetCognitiveScore(user_id, window) ==
    /\ Idle
    /\ LET lists == BrainData(window[1], window[2], "minute", now)
       IN  \E data_points \in EmptinessCases(lists), dist_points \in lists :
             ret' = [ raised       |-> None,
                      total        |-> Len(dist_points),
                      distribution |-> StateDistribution(dist_points),
                      score        |-> CognitiveScore(data_points, dist_points) ]
    /\ call' = [ op |-> "get_cognitive_score", user_id |-> user_id,
                 start_time |-> window[1], end_time |-> window[2] ]
    /\ generators' = UseGenerator(user_id)
    /\ random_state' = 1 - random_state
    /\ UNCHANGED <<now, signal, threads, handed, llm>>

\* DataService.get_activities
GetActivities(user_id, window, min_duration_minutes) ==
    /\ Idle
    /\ \E data_points \in BrainData(window[1], window[2], "minute", now) :
         ret' = [ raised      |-> None,
                  data_points |-> data_points,
                  activities  |-> Activities(data_points, window[2], min_duration_minutes) ]
    /\ call' = [ op |-> "get_activities", user_id |-> user_id,
                 start_time |-> window[1], end_time |-> window[2],
                 min_duration_minutes |-> min_duration_minutes ]
    /\ generators' = UseGenerator(user_id)
    /\ random_state' = 1 - random_state
    /\ UNCHANGED <<now, signal, threads, handed, llm>>

\* The values get_cognitive_score can return for a window
ScoreOutcomes(start_time, end_time, clock) ==
    LET lists == BrainData(start_time, end_time, "minute", clock)
    IN  { CognitiveScore(data_points, dist_points) :
          data_points \in EmptinessCases(lists), dist_points \in lists }

\* The while loop of _find_time_of_day_patterns: the windows scored, each
\* filed under the hour of its start
RECURSIVE HourBuckets(_, _)
HourBuckets(current, end_time) ==
    IF current >= end_time THEN <<>>
    ELSE LET hour_end == Min(current + Hour, end_time)
         IN  << [hour |-> (current % Day) \div Hour, start |-> current, end |-> hour_end] >>
             \o HourBuckets(hour_end, end_time)

\* The score sequences the get_cognitive_score calls of the loop can yield
RECURSIVE BucketScores(_, _)
BucketScores(buckets, clock) ==
    IF buckets = <<>> THEN {<<>>}
    ELSE { <<score>> \o rest :
           score \in ScoreOutcomes(Head(buckets).start, Head(buckets).end, clock),
           rest \in BucketScores(Tail(buckets), clock) }

\* hourly_scores[hour].append(score) on a dict that keeps insertion order:
\* entries [hour, total, count], the average being total / count
RECURSIVE FileScore(_, _, _)
FileScore(hourly_scores, hour, score) ==
    IF hourly_scores = <<>> THEN << [hour |-> hour, total |-> score, count |-> 1] >>
    ELSE IF Head(hourly_scores).hour = hour
         THEN << [hour |-> hour, total |-> Head(hourly_scores).total + score,
                  count |-> Head(hourly_scores).count + 1] >> \o Tail(hourly_scores)
         ELSE << Head(hourly_scores) >> \o FileScore(Tail(hourly_scores), hour, score)

RECURSIVE FileScores(_, _, _, _)
FileScores(buckets, scores, i, hourly_scores) ==
    IF i > Len(buckets) THEN hourly_scores
    ELSE FileScores(buckets, scores, i + 1,
                    FileScore(hourly_scores, buckets[i].hour, scores[i]))

\* sorted(avg_by_hour.items(), key=average, reverse=True): stable, by
\* insertion from the back
RECURSIVE InsertByAverage(_, _)
InsertByAverage(sorted, entry) ==
    IF sorted = <<>>
       \/ sorted[Len(sorted)].total * entry.count >= entry.total * sorted[Len(sorted)].count
    THEN Append(sorted, entry)
    ELSE Append(InsertByAverage(SubSeq(sorted, 1, Len(sorted) - 1), entry), sorted[Len(sorted)])

RECURSIVE SortByAverageFrom(_, _, _)
SortByAverageFrom(entries, i, sorted) ==
    IF i > Len(entries) THEN sorted
    ELSE SortByAverageFrom(entries, i + 1, InsertByAverage(sorted, entries[i]))

\* DataService._find_time_of_day_patterns, given the scores of its buckets
FindTimeOfDayPatterns(buckets, scores) ==
    LET avg_by_hour == FileScores(buckets, scores, 1, <<>>)
        ranked == SortByAverageFrom(avg_by_hour, 1, <<>>)
    IN  [ pattern_type  |-> "time_of_day",
          buckets       |-> buckets,
          hourly_scores |-> avg_by_hour,
          best_hours    |-> SubSeq(ranked, 1, Min(3, Len(ranked))) ]

\* The pattern types requested: the four of the tool schema, and one more
PatternTypes ==
    {"focus_windows", "time_of_day", "activity_correlation", "state_transitions",
     "sleep_cycles"}

\* Windows of the time-of-day analysis: on the hour, across an hour boundary,
\* and empty
TimeOfDayWindows(clock) ==
    { <<Today9(clock), Today9(clock) + 180>>,
      <<Today9(clock) + 58 * Minute, Today9(clock) + 61 * Minute>>,
      <<Today9(clock), Today9(clock)>> }

\* DataService.find_patterns
FindPatterns(user_id, pattern_type, window) ==
    /\ Idle
    /\ \/ /\ pattern_type = "time_of_day"
          /\ window \in TimeOfDayWindows(now)
          /\ LET buckets == HourBuckets(window[1], window[2])
             IN  \E scores \in BucketScores(buckets, now) :
                   ret' = [ raised      |-> None,
                            data_points |-> <<>>,
                            patterns    |-> FindTimeOfDayPatterns(buckets, scores) ]
          /\ generators' = IF window[1] < window[2] THEN UseGenerator(user_id) ELSE generators
          /\ random_state' = IF window[1] < window[2] THEN 1 - random_state ELSE random_state
       \/ /\ pattern_type = "focus_windows"
          /\ window \in FocusWindows(now) \cup DayWindows(now)
          /\ \E data_points \in BrainData(window[1], window[2], "minute", now) :
               ret' = [ raised      |-> None,
                        data_points |-> data_points,
                        patterns    |-> FindFocusWindows(data_points) ]
          /\ generators' = UseGenerator(user_id)
          /\ random_state' = 1 - random_state
       \/ /\ pattern_type \notin {"time_of_day", "focus_windows"}
          /\ window \in TimeOfDayWindows(now)
          /\ ret' = [ raised      |-> None,
                      data_points |-> <<>>,
                      patterns    |-> [ pattern_type |-> pattern_type,
                                        message |-> "Pattern analysis coming soon" ] ]
          /\ UNCHANGED <<generators, random_state>>
    /\ call' = [ op |-> "find_patterns", user_id |-> user_id, pattern_type |-> pattern_type,
                 start_time |-> window[1], end_time |-> window[2] ]
    /\ UNCHANGED <<now, signal, threads, handed, llm>>

\* The two periods compared
CompareWindows(clock) ==
    { <<Today9(clock), Today9(clock) + 60>>,
      <<Today9(clock) - Day, Today9(clock) - Day + 90>> }

\* DataService.compare_time_periods: get_state_distribution for each period,
\* then get_cognitive_score for each period.  The result of the comparison
\* before stays in ret while this one runs.
CompareTimePeriods(user_id, period1, period2) ==
    /\ call.op \in {"none", "compare_time_periods"}
    /\ LET lists1 == BrainData(period1[1], period1[2], "minute", now)
           lists2 == BrainData(period2[1], period2[2], "minute", now)
       IN  \E dist1 \in {StateDistribution(l) : l \in lists1},
              dist2 \in {StateDistribution(l) : l \in lists2},
              score1 \in ScoreOutcomes(period1[1], period1[2], now),
              score2 \in ScoreOutcomes(period2[1], period2[2], now) :
             ret' = [ raised     |-> None,
                      comparison |-> Comparison(period1, period2, dist1, dist2, score1, score2) ]
    /\ call' = [ op |-> "compare_time_periods", user_id |-> user_id,
                 period1 |-> period1, period2 |-> period2 ]
    /\ generators' = UseGenerator(user_id)
    /\ random_state' = 1 - random_state
    /\ UNCHANGED <<now, signal, threads, handed, llm>>

\* The N of "last N days": the small ones, and two that reach back before
\* datetime.min
DaysTried == (1..MaxDays) \cup {740000, 1000000}

\* The period strings tried
FEW == <<"f", "e", "w">>
Periods ==
    {TODAY, YESTERDAY, THIS_WEEK, LAST_WEEK}
    \cup {LastNDays(n) : n \in DaysTried}
    \cup { LAST \o <<" ">> \o FEW \o <<" ">> \o DAYS,
           DAYS \o <<" ">> \o LAST,
           <<"t", "o", "m", "o", "r", "r", "o", "w">>,
           <<"T", "o", "d", "a", "y">>,
           LAST \o <<" ">> \o <<"7">> \o <<" ">> \o <<"d", "a", "y">>,
           <<>> }

\* parse_time_period
ParseTimePeriod(period) ==
    /\ Idle
    /\ ret' = ParseTimePeriodAt(period, now)
    /\ call' = [op |-> "parse_time_period", period |-> period]
    /\ UNCHANGED <<now, generators, signal, random_state, threads, handed, llm>>

ScenarioRequests == ScenarioNames \cup {"night_shift"}

\* MockBrainDataGenerator.generate_session_from_scenario, on the generator
\* of a registered user
GenerateSessionFromScenario(user_id, scenario_name, start_time) ==
    /\ Idle
    /\ user_id \in DOMAIN generators
    /\ ret' = IF scenario_name \notin ScenarioNames
              THEN [raised |-> "ValueError", message |-> scenario_name]
              ELSE [ raised           |-> None,
                     start_time       |-> start_time,
                     end_time         |-> start_time + SCENARIOS[scenario_name].duration * Minute,
                     duration_minutes |-> SCENARIOS[scenario_name].duration,
                     data_points      |-> ScenarioPoints(scenario_name, start_time),
                     scenario         |-> scenario_name ]
    /\ call' = [ op |-> "generate_session_from_scenario", user_id |-> user_id,
                 scenario_name |-> scenario_name, start_time |-> start_time ]
    /\ generators' = IF scenario_name \notin ScenarioNames
                     THEN generators
                     ELSE [generators EXCEPT ![user_id] = Drawn(@)]
    /\ UNCHANGED <<now, signal, random_state, threads, handed, llm>>

\* The state validated only after the loop has run
AfterCustomSessionLateCheck(generator, duration_minutes, primary_state) ==
    IF duration_minutes <= 0 THEN generator ELSE Drawn(generator)

\* The generator a generate_custom_session call leaves behind: the state is
\* validated first, then every minute of the loop draws
AfterCustomSession(generator, duration_minutes, primary_state) ==
    IF primary_state \notin StateNames \/ duration_minutes <= 0
    THEN generator
    ELSE Drawn(generator)

\* MockBrainDataGenerator.generate_custom_session, on the generator of a
\* registered user
GenerateCustomSession(user_id, duration_minutes, primary_state, start_time, include_transitions) ==
    /\ Idle
    /\ user_id \in DOMAIN generators
    /\ IF primary_state \notin StateNames
       THEN ret' = [raised |-> "ValueError", message |-> primary_state]
       ELSE \E data_points \in CustomPoints(duration_minutes, primary_state,
                                            start_time, include_transitions) :
              ret' = [ raised           |-> None,
                       start_time       |-> start_time,
                       end_time         |-> start_time + duration_minutes * Minute,
                       duration_minutes |-> duration_minutes,
                       data_points      |-> data_points,
                       primary_state    |-> primary_state ]
    /\ call' = [ op |-> "generate_custom_session", user_id |-> user_id,
                 duration_minutes |-> duration_minutes, primary_state |-> primary_state,
                 start_time |-> start_time, include_transitions |-> include_transitions ]
    /\ generators' = [generators EXCEPT ![user_id] =
                        AfterCustomSession(@, duration_minutes, primary_state)]
    /\ UNCHANGED <<now, signal, random_state, threads, handed, llm>>

\* What get_state_distribution, get_cognitive_score, get_activities and
\* _find_focus_windows make of the point list their get_brain_data call
\* handed them
DerivedMetrics(data_points, end_time, min_duration_minutes) ==
    /\ Idle
    /\ ret' = [ raised       |-> None,
                distribution |-> StateDistribution(data_points),
                score        |-> CognitiveScore(data_points, data_points),
                activities   |-> Activities(data_points, end_time, min_duration_minutes),
                windows      |-> FindFocusWindows(data_points).windows ]
    /\ call' = [ op |-> "derived_metrics", data_points |-> data_points,
                 end_time |-> end_time, min_duration_minutes |-> min_duration_minutes ]
    /\ UNCHANGED <<now, generators, signal, random_state, threads, handed, llm>>

\* MockDataProvider.get_generator run by thread t, one statement at a time:
\* the membership test, the construction and store, the read that is returned
GetGeneratorStep(t, user_id) ==
    /\ \/ /\ threads[t].pc = "idle"
          /\ threads' = [threads EXCEPT ![t] =
                           [ pc |-> IF user_id \in DOMAIN generators
                                    THEN "return" ELSE "create",
                             user_id |-> user_id ]]
          /\ UNCHANGED <<generators, handed>>
       \/ /\ threads[t].pc = "create"
          /\ threads[t].user_id = user_id
          /\ generators' = [u \in DOMAIN generators \cup {user_id} |->
                              IF u = user_id
                              THEN MockBrainDataGenerator(user_id, None)
                              ELSE generators[u]]
          /\ threads' = [threads EXCEPT ![t].pc = "return"]
          /\ UNCHANGED handed
       \/ /\ threads[t].pc = "return"
          /\ threads[t].user_id = user_id
          /\ handed' = handed \cup
                         {[ user_id |-> user_id,
                            baseline_variation |-> generators[user_id].baseline_variation ]}
          /\ threads' = [threads EXCEPT ![t] = [pc |-> "idle"]]
          /\ UNCHANGED generators
    /\ UNCHANGED <<now, call, ret, signal, random_state, llm>>

\* The messages chat appends before the follow-up completion, with the
\* tool results ahead of the assistant message
ToolMessagesResultsFirst(tool_calls, tool_results) ==
    [i \in DOMAIN tool_results |->
       [ role |-> "tool", tool_call_id |-> tool_results[i].tool_call_id,
         content |-> tool_results[i].content ]]
    \o << [role |-> "assistant", tool_calls |-> tool_calls] >>

\* The messages chat appends before the follow-up completion: the assistant
\* message with its tool calls, then one tool message per result
ToolMessages(tool_calls, tool_results) ==
    << [role |-> "assistant", tool_calls |-> tool_calls] >>
    \o [i \in DOMAIN tool_results |->
          [ role |-> "tool", tool_call_id |-> tool_results[i].tool_call_id,
            content |-> tool_results[i].content ]]

\* The POST /chat handler, from one suspension point to the next: the first
\* chat_completion, execute_tool_calls, the follow-up chat_completion.
\* chat_completion answers with _fallback_response when there is no client;
\* with a client it returns text, returns tool calls, or re-raises what the
\* client raised, and chat turns every exception into an HTTPException.
\* execute_tool_calls parses the arguments of a call outside its try: a call
\* with malformed arguments ends the loop with an exception, after the calls
\* before it have run.
Chat(message) ==
    /\ \/ /\ Idle
          /\ \E outcome \in IF llm = None THEN {"fallback"}
                             ELSE {"content", "tool_calls", "raise"} :
               \E tool_calls \in IF outcome = "tool_calls" THEN ToolCallBatches ELSE {<<>>} :
                 /\ call' = [ op |-> "chat", message |-> message,
                              pc |-> IF outcome = "tool_calls" THEN "tools" ELSE "done",
                              completions |-> 1,
                              messages |-> << [role |-> "system"], [role |-> "user"] >>,
                              tool_calls |-> tool_calls,
                              tool_results |-> <<>>,
                              executed |-> 0 ]
                 /\ ret' = CASE outcome = "raise" ->
                                  [raised |-> "HTTPException", status_code |-> 500]
                             [] outcome = "tool_calls" -> NoRet
                             [] OTHER ->
                                  [ raised |-> None, response |-> outcome,
                                    tool_calls_made |-> 0 ]
          /\ UNCHANGED <<generators, random_state>>
       \/ /\ call.op = "chat"
          /\ call.pc = "tools"
          /\ LET calls == call.tool_calls
                 malformed == {i \in DOMAIN calls : calls[i].arguments = "malformed"}
                 stop == IF malformed = {} THEN Len(calls) + 1
                         ELSE CHOOSE i \in malformed : \A j \in malformed : i <= j
                 ran == 1..(stop - 1)
             IN  \E contents \in [ran -> {"result", "error", "unknown_function"}],
                    reached \in BOOLEAN :
                   /\ \A i \in ran :
                        contents[i] = "unknown_function" <=> calls[i].name \notin DataTools
                   /\ reached => \E i \in ran : calls[i].name \in DataTools
                   /\ (\E i \in ran : calls[i].name = "get_brain_data"
                                       /\ contents[i] = "result") => reached
                   /\ LET tool_results ==
                              [i \in ran |-> [ tool_call_id |-> calls[i].id,
                                               content |-> contents[i] ]]
                      IN  IF malformed = {}
                          THEN /\ call' = [ call EXCEPT
                                              !.pc = "final",
                                              !.tool_results = tool_results,
                                              !.executed = Len(calls),
                                              !.messages = @ \o ToolMessages(calls, tool_results) ]
                               /\ UNCHANGED ret
                          ELSE /\ call' = [call EXCEPT !.pc = "done", !.executed = stop - 1]
                               /\ ret' = [raised |-> "HTTPException", status_code |-> 500]
                   /\ generators' = IF reached THEN UseGenerator("u1") ELSE generators
                   /\ random_state' = IF reached THEN 1 - random_state ELSE random_state
       \/ /\ call.op = "chat"
          /\ call.pc = "final"
          /\ \E outcome \in {"content", "tool_calls", "raise"} :
               ret' = IF outcome = "raise"
                      THEN [raised |-> "HTTPException", status_code |-> 500]
                      ELSE [ raised |-> None, response |-> outcome,
                             tool_calls_made |-> Len(call.tool_calls) ]
          /\ call' = [call EXCEPT !.pc = "done", !.completions = 2]
          /\ UNCHANGED <<generators, random_state>>
    /\ UNCHANGED <<now, signal, threads, handed, llm>>

\* The response is delivered; the server waits for the next request
Respond ==
    /\ ~Idle
    /\ call.op = "chat" => call.pc = "done"
    /\ call' = NoCall
    /\ ret' = NoRet
    /\ UNCHANGED <<now, generators, signal, random_state, threads, handed, llm>>

\* The wall clock advances between requests
Tick ==
    /\ Idle
    /\ now < Now0 + MaxTicks * TickStep
    /\ now' = now + TickStep
    /\ UNCHANGED <<generators, call, ret, signal, random_state, threads, handed, llm>>

\* MockBrainDataGenerator._generate_state_data on a fresh generator
GenerateStateDataCall(state, noise, extra) ==
    /\ signal.state = None
    /\ signal' = [ signal EXCEPT
                     !.state = state,
                     !.data = GenerateStateData(state, signal.baseline_variation, noise, extra) ]
    /\ UNCHANGED <<now, generators, call, ret, random_state, threads, handed, llm>>

----------------------------------------------------------------------------
(* Specifications *)

Init ==
    /\ now = Now0
    /\ generators = [u \in {} |-> None]
    /\ call = NoCall
    /\ ret = NoRet
    /\ signal = NoSignal
    /\ random_state = 0
    /\ threads = [t \in Threads |-> [pc |-> "idle"]]
    /\ handed = {}
    /\ llm = None

\* Requests to the data service, the session builder and the period parser,
\* served one at a time.  These come from one user; SpecUsers has two.
DataWindows(clock) == ShortWindows(clock) \cup DayWindows(clock)

BrainDataRequest ==
    \E u \in {"u1"}, w \in DataWindows(now), g \in Granularities : GetBrainData(u, w, g)

StateDistributionRequest ==
    \E u \in {"u1"}, w \in DataWindows(now) : GetStateDistribution(u, w)

CognitiveScoreRequest ==
    \E u \in {"u1"}, w \in DataWindows(now) : GetCognitiveScore(u, w)

ActivitiesRequest ==
    \E u \in {"u1"}, w \in DataWindows(now), m \in MinDurations : GetActivities(u, w, m)

PatternsRequest ==
    \E u \in {"u1"}, t \in PatternTypes,
       w \in DataWindows(now) \cup FocusWindows(now) \cup TimeOfDayWindows(now) :
      FindPatterns(u, t, w)

ScenarioRequest ==
    \E u \in {"u1"}, n \in ScenarioRequests, t \in {Today9(now), Today9(now) + 30} :
      GenerateSessionFromScenario(u, n, t)

CustomSessionRequest ==
    \E u \in {"u1"}, n \in {0, 1, 3},
       s \in {"deep_focus", "neutral", "meditative_deep", "asleep"},
       t \in {Today9(now)}, i \in BOOLEAN :
      GenerateCustomSession(u, n, s, t, i)

ParseRequest == \E p \in Periods : ParseTimePeriod(p)

CompareRequest ==
    \E u \in {"u1"}, p1 \in CompareWindows(now), p2 \in CompareWindows(now) :
      CompareTimePeriods(u, p1, p2)

Next ==
    \/ BrainDataRequest
    \/ StateDistributionRequest
    \/ CognitiveScoreRequest
    \/ ActivitiesRequest
    \/ PatternsRequest
    \/ ScenarioRequest
    \/ CustomSessionRequest
    \/ ParseRequest
    \/ Respond
    \/ Tick

Spec == Init /\ [][Next]_vars

\* Raw data and scenario replay
NextData ==
    BrainDataRequest \/ ScenarioRequest \/ CustomSessionRequest \/ Respond \/ Tick
SpecData == Init /\ [][NextData]_vars

\* State distribution and cognitive score
NextMetrics == StateDistributionRequest \/ CognitiveScoreRequest \/ Respond \/ Tick
SpecMetrics == Init /\ [][NextMetrics]_vars

\* Activity timeline, at one reading of the clock
NextActivities == ActivitiesRequest \/ Respond
SpecActivities == Init /\ [][NextActivities]_vars

\* Pattern analysis, at one reading of the clock
NextPatterns == PatternsRequest \/ Respond
SpecPatterns == Init /\ [][NextPatterns]_vars

\* Period parsing
NextParse == ParseRequest \/ Respond \/ Tick
SpecParse == Init /\ [][NextParse]_vars

\* Comparisons, one after the other
NextCompare == CompareRequest \/ Respond \/ Tick
SpecCompare == Init /\ [][NextCompare]_vars

\* The derived metrics of custom sessions of zero to three points, and of
\* the first minutes of the meditation scenario, whose points share one
\* activity
DerivedRequest ==
    \/ \E n \in 0..3, s \in PrimaryStates, m \in MinDurations :
         \E data_points \in CustomPoints(n, s, Today9(now), TRUE) :
           DerivedMetrics(data_points, Today9(now) + n * Minute, m)
    \/ \E n \in 1..SCENARIOS["meditation_session"].duration, m \in MinDurations :
         DerivedMetrics(SubSeq(ScenarioPoints("meditation_session", Today9(now)), 1, n),
                        Today9(now) + n * Minute, m)

SpecDerived == Init /\ [][DerivedRequest \/ Respond]_vars

\* get_generator calls of two threads for two users, interleaved with
\* sessions generated on the registered generator of the first user
SpecRegistry ==
    Init /\ [][ \/ \E t \in Threads, u \in Users : GetGeneratorStep(t, u)
                \/ CustomSessionRequest
                \/ Respond
                \/ Tick ]_vars

\* Raw data requested by two users in turn
SpecUsers ==
    Init /\ [][ \/ \E u \in Users, w \in ShortWindows(now) : GetBrainData(u, w, "minute")
                \/ Respond ]_vars

\* Chat requests, with and without an API key in the settings
InitChat ==
    /\ now = Now0
    /\ generators = [u \in {} |-> None]
    /\ call = NoCall
    /\ ret = NoRet
    /\ signal = NoSignal
    /\ random_state = 0
    /\ threads = [t \in Threads |-> [pc |-> "idle"]]
    /\ handed = {}
    /\ llm \in {None, "AsyncOpenAI"}

SpecChat ==
    InitChat /\ [][(\E m \in {"how was my focus today?"} : Chat(m)) \/ Respond \/ Tick]_vars

\* The signal generator of one user: __init__ draws the bias, then a point
InitSignal ==
    /\ now = Now0
    /\ generators = [u \in {} |-> None]
    /\ call = NoCall
    /\ ret = NoRet
    /\ random_state = 0
    /\ threads = [t \in Threads |-> [pc |-> "idle"]]
    /\ handed = {}
    /\ llm = None
    /\ signal \in { [ state |-> None, baseline_variation |-> b,
                      data |-> [band \in BandSet |-> 0] ] :
                    b \in [BandSet -> BiasLevels] }

NextSignal ==
    /\ signal.state = None
    /\ \E state \in StateNames, noise \in [BandSet -> NoiseDraws] :
         \E extra \in IF COGNITIVE_STATES[state].fluctuation
                      THEN [BandSet -> ExtraDraws]
                      ELSE {[band \in BandSet |-> 0]} :
           GenerateStateDataCall(state, noise, extra)

SpecSignal == InitSignal /\ [][NextSignal]_vars

----------------------------------------------------------------------------
(* Properties *)

\* C1: get_cognitive_score returns an integer in the closed range 0..100 for
\* every point sequence that get_brain_data can produce, whatever the mix of
\* states in it.
C1_ScoreInRange ==
    call.op = "get_cognitive_score" => ret.score \in 0..100

\* A mix of states whose unclamped score is negative and is returned as 0
C1_NegativeScoreFloored ==
    /\ call.op = "get_cognitive_score"
    /\ ret.total > 1
    /\ RawScore100(ret.distribution) < 0
    /\ ret.score = 0

\* C2: for every non-empty state distribution the cognitive score is the
\* unclamped value 50 + 0.5 (deep_focus + creative_flow) - 0.8 stressed
\* - 0.6 drowsy - 0.4 distracted rounded to the nearest integer, then clamped
\* to 0..100.
C2_ScoreRoundedToNearest ==
    (call.op = "get_cognitive_score" /\ ret.total > 0) =>
        ret.score = Max(0, Min(100, RoundHalfEven(RawScore100(ret.distribution), 100)))

\* C3: every point the signal generator produces, for every state of the
\* catalog, every per-band bias in [0.9, 1.1] and every noise draw, has each
\* of its five band values in [0, 1] after renormalization.
C3_BandsInUnitRange ==
    signal.state # None => \A band \in BandSet : signal.data[band] \in 0..1000

\* C4: every activity segment get_activities returns has duration_minutes >=
\* max(1, min_duration_minutes); with min_duration_minutes = 5, a maximal run
\* of 3 consecutive minutes of one activity produces no segment.
C4_SegmentsMeetMinimum ==
    call.op = "get_activities" =>
        LET points == ret.data_points
            label(i) == NormalizePoint(points[i]).activity
            RunOfThree(i) ==
                /\ i + 2 <= Len(points)
                /\ label(i + 1) = label(i)
                /\ label(i + 2) = label(i)
                /\ (i = 1 \/ label(i - 1) # label(i))
                /\ (i + 2 = Len(points) \/ label(i + 3) # label(i))
        IN  /\ \A k \in DOMAIN ret.activities :
                 ret.activities[k].duration_minutes >= Max(1, call.min_duration_minutes)
            /\ call.min_duration_minutes = 5 =>
                 \A i \in DOMAIN points :
                     RunOfThree(i) =>
                         \A k \in DOMAIN ret.activities :
                             ret.activities[k].start_time # points[i].time

\* A request with min_duration_minutes = 5 whose points begin with a run of
\* 3 minutes of one activity, which is dropped, followed by a run that is kept
C4_ShortRunDropped ==
    /\ call.op = "get_activities"
    /\ call.min_duration_minutes = 5
    /\ Len(ret.data_points) > 3
    /\ ret.data_points[1].state = ret.data_points[3].state
    /\ ret.data_points[4].state # ret.data_points[3].state
    /\ Len(ret.activities) = 1
    /\ ret.activities[1].start_time = ret.data_points[4].time
    /\ ret.activities[1].duration_minutes >= 5

\* C5: the focus-window scan reports exactly the maximal runs of consecutive
\* points in state deep_focus or creative_flow that are at least 15 points
\* long, in order: a run of 14 yields no window, a run of 15 exactly one, and
\* a run ends at the first non-focus point or at the end of the sequence.
C5_WindowsAreLongFocusRuns ==
    (call.op = "find_patterns" /\ call.pattern_type = "focus_windows") =>
        LET points == ret.data_points
            windows == ret.patterns.windows
            focus(i) == points[i].state \in {"deep_focus", "creative_flow"}
            starts == {i \in DOMAIN points : focus(i) /\ (i = 1 \/ ~focus(i - 1))}
            last(i) == CHOOSE j \in i..Len(points) :
                           /\ \A k \in i..j : focus(k)
                           /\ (j = Len(points) \/ ~focus(j + 1))
            long == {i \in starts : last(i) - i + 1 >= 15}
        IN  /\ Len(windows) = Cardinality(long)
            /\ \A i \in long :
                   \E w \in DOMAIN windows :
                       windows[w] = [ start    |-> points[i].time,
                                      end      |-> points[last(i)].time,
                                      duration |-> last(i) - i + 1 ]
            /\ \A w \in 1..(Len(windows) - 1) : windows[w].start < windows[w + 1].start

\* A run of exactly 15 focus points, ended by a non-focus point, reported as
\* the only window
C5_RunOfFifteenReported ==
    /\ call.op = "find_patterns"
    /\ call.pattern_type = "focus_windows"
    /\ Len(ret.data_points) = 16
    /\ ret.data_points[15].state = "deep_focus"
    /\ ret.data_points[16].state = "distracted"
    /\ Len(ret.patterns.windows) = 1
    /\ ret.patterns.windows[1].duration = 15

\* C6: aggregating N >= 1 minute-points with window size W (5, 15 or 60)
\* yields exactly ceil(N / W) points, the final undersized chunk included, and
\* output point k carries the timestamp of input point k * W (k from 0).
C6_AggregationShape ==
    (/\ call.op = "get_brain_data"
     /\ call.granularity \in {"5min", "15min", "hour"}
     /\ Len(ret.session) >= 1) =>
        LET N == Len(ret.session)
            W == CASE call.granularity = "5min"  -> 5
                   [] call.granularity = "15min" -> 15
                   [] call.granularity = "hour"  -> 60
        IN  /\ Len(ret.data_points) = (N + W - 1) \div W
            /\ \A k \in 0..(Len(ret.data_points) - 1) :
                   ret.data_points[k + 1].time = ret.session[k * W + 1].time

\* A 15-minute aggregation of a sequence whose length is no multiple of 15
C6_UndersizedFinalChunk ==
    /\ call.op = "get_brain_data"
    /\ call.granularity = "15min"
    /\ Len(ret.session) % 15 # 0
    /\ Len(ret.session) > 60
    /\ Len(ret.data_points) = (Len(ret.session) \div 15) + 1

\* C7: replaying a cataloged scenario yields exactly `duration` points, point
\* i stamped start_time + i minutes and labelled with the state and activity
\* of the first timeline segment whose interval [time, time + duration)
\* contains i; meditation_session yields 20 points: stressed for minutes 0-2,
\* neutral 3-4, relaxed 5-9, meditative_deep 10-17, relaxed 18-19.
C7_ScenarioReplay ==
    (call.op = "generate_session_from_scenario" /\ ret.raised = None) =>
        LET scenario == SCENARIOS[call.scenario_name]
            timeline == scenario.timeline
            inside(s, i) == /\ timeline[s].time <= i
                            /\ i < timeline[s].time + timeline[s].duration
        IN  /\ Len(ret.data_points) = scenario.duration
            /\ \A i \in 0..(scenario.duration - 1) :
                   /\ ret.data_points[i + 1].time = call.start_time + i * Minute
                   /\ \E s \in DOMAIN timeline :
                          /\ inside(s, i)
                          /\ \A r \in 1..(s - 1) : ~inside(r, i)
                          /\ ret.data_points[i + 1].state = timeline[s].state
                          /\ ret.data_points[i + 1].activity = timeline[s].activity
            /\ call.scenario_name = "meditation_session" =>
                   [i \in 1..20 |-> ret.data_points[i].state] =
                       << "stressed", "stressed", "stressed", "neutral", "neutral",
                          "relaxed", "relaxed", "relaxed", "relaxed", "relaxed",
                          "meditative_deep", "meditative_deep", "meditative_deep",
                          "meditative_deep", "meditative_deep", "meditative_deep",
                          "meditative_deep", "meditative_deep", "relaxed", "relaxed" >>

\* A replay of meditation_session
C7_MeditationReplayed ==
    /\ call.op = "generate_session_from_scenario"
    /\ call.scenario_name = "meditation_session"
    /\ ret.raised = None
    /\ Len(ret.data_points) = 20
    /\ ret.data_points[3].state = "stressed"
    /\ ret.data_points[4].state = "neutral"
    /\ ret.data_points[4].time = call.start_time + 3 * Minute

\* C8, as stated: the score, focus and stress deltas of
\* compare_time_periods(A, B) are the exact negation of those of
\* compare_time_periods(B, A).  The two calls are two steps, one after the
\* other, with the windows swapped.
C8_SwappedCallsNegate ==
    [][ (/\ call.op = "compare_time_periods"
         /\ call'.op = "compare_time_periods"
         /\ call'.user_id = call.user_id
         /\ call'.period1 = call.period2
         /\ call'.period2 = call.period1) =>
            LET before == ret.comparison.changes
                after == ret'.comparison.changes
            IN  /\ after.cognitive_score_change = -before.cognitive_score_change
                /\ after.focus_change = -before.focus_change
                /\ after.stress_change = -before.stress_change ]_vars

\* C8, amended: within one result each delta is the period-1 figure minus
\* the period-2 figure reported in that result, so the deltas are the exact
\* negation of what the same figures give with the two periods swapped.
\* (Each call draws its data anew: two calls need not negate each other.)
C8_DeltasAreDifferences ==
    call.op = "compare_time_periods" =>
        LET c == ret.comparison
            swapped == Comparison(call.period2, call.period1,
                                  c.period2.state_distribution, c.period1.state_distribution,
                                  c.period2.cognitive_score, c.period1.cognitive_score)
        IN  /\ c.changes.cognitive_score_change
                   = c.period1.cognitive_score - c.period2.cognitive_score
            /\ c.changes.focus_change
                   = c.period1.state_distribution["deep_focus"]
                     - c.period2.state_distribution["deep_focus"]
            /\ c.changes.stress_change
                   = c.period1.state_distribution["stressed"]
                     - c.period2.state_distribution["stressed"]
            /\ swapped.changes.cognitive_score_change = -c.changes.cognitive_score_change
            /\ swapped.changes.focus_change = -c.changes.focus_change
            /\ swapped.changes.stress_change = -c.changes.stress_change

\* A comparison of two different windows whose score and focus deltas are
\* not zero
C8_NonzeroDeltas ==
    /\ call.op = "compare_time_periods"
    /\ call.period1 # call.period2
    /\ ret.comparison.changes.cognitive_score_change > 0
    /\ ret.comparison.changes.focus_change > 0

\* C9, as stated: parse_time_period("today") returns (local midnight, now),
\* and parse_time_period("last N days") returns (now - N days, now) for every
\* positive integer N.
C9_EveryNReturns ==
    call.op = "parse_time_period" =>
        /\ call.period = TODAY =>
               /\ ret.raised = None
               /\ ret.start % Day = 0
               /\ ret.start <= now
               /\ now - ret.start < Day
               /\ ret.end = now
        /\ \A n \in DaysTried :
               call.period = LastNDays(n) =>
                   /\ ret.raised = None
                   /\ ret.end = now
                   /\ (now - ret.start) % Day = 0
                   /\ (now - ret.start) \div Day = n

\* C9, amended: parse_time_period("today") returns (local midnight, now);
\* parse_time_period("last N days") returns (now - N days, now) for every
\* positive N for which now - N days is not before datetime.min, and raises
\* OverflowError for a larger N.
C9_RepresentableNReturns ==
    call.op = "parse_time_period" =>
        /\ call.period = TODAY =>
               /\ ret.raised = None
               /\ ret.start % Day = 0
               /\ ret.start <= now
               /\ now - ret.start < Day
               /\ ret.end = now
        /\ \A n \in DaysTried :
               call.period = LastNDays(n) =>
                   IF n <= EpochOrdinal + (now \div Day)
                   THEN /\ ret.raised = None
                        /\ ret.end = now
                        /\ (now - ret.start) % Day = 0
                        /\ (now - ret.start) \div Day = n
                   ELSE ret.raised = "OverflowError"

\* "last 30 days", answered with (now - 30 days, now)
C9_LastThirtyDays ==
    /\ call.op = "parse_time_period"
    /\ call.period = LastNDays(30)
    /\ ret.raised = None
    /\ ret.start = now - 30 * Day
    /\ ret.end = now

\* C10: every period string that is not one of the recognised forms (today,
\* yesterday, this week, last week, last N days with a number N) resolves to
\* the "today" window (local midnight, now) and never raises, strings that
\* hold "last" and "days" but no digit included.
C10_UnrecognisedIsToday ==
    (/\ call.op = "parse_time_period"
     /\ call.period \notin {TODAY, YESTERDAY, THIS_WEEK, LAST_WEEK}
     /\ \A n \in DaysTried : call.period # LastNDays(n)) =>
        /\ ret.raised = None
        /\ ret.start % Day = 0
        /\ ret.start <= now
        /\ now - ret.start < Day
        /\ ret.end = now

\* C11: an empty point sequence is never an error: the state distribution is
\* the fixed default (25.0, 20.0, 10.0, 15.0, 10.0, 10.0, 10.0 percent), the
\* cognitive score is 70, and the activity list and the focus-window list are
\* empty.
C11_EmptyDefaults ==
    (call.op = "derived_metrics" /\ call.data_points = <<>>) =>
        /\ ret.raised = None
        /\ ret.distribution =
             [ deep_focus |-> 250, relaxed |-> 200, stressed |-> 100,
               creative_flow |-> 150, drowsy |-> 100, distracted |-> 100,
               neutral |-> 100 ]
        /\ ret.score = 70
        /\ ret.activities = <<>>
        /\ ret.windows = <<>>

\* The metrics of an empty session have been derived
C11_EmptySessionDerived ==
    /\ call.op = "derived_metrics"
    /\ call.data_points = <<>>
    /\ ret.score = 70

\* C12: generate_session_from_scenario with a scenario name outside the
\* catalog, and generate_custom_session with a state identifier outside the
\* catalog, fail with an error that names the bad value; no point is
\* generated, and the generator's random source and bias are as before.
C12_BadNameRaisesUntouched ==
    [][ (/\ call.op = "none"
         /\ \/ /\ call'.op = "generate_session_from_scenario"
               /\ call'.scenario_name \notin DOMAIN SCENARIOS
            \/ /\ call'.op = "generate_custom_session"
               /\ call'.primary_state \notin DOMAIN COGNITIVE_STATES) =>
            /\ ret'.raised = "ValueError"
            /\ ret'.message = (IF call'.op = "generate_custom_session"
                               THEN call'.primary_state ELSE call'.scenario_name)
            /\ DOMAIN ret' = {"raised", "message"}
            /\ generators' = generators ]_vars

\* A three-minute custom session of the unknown state "asleep" was refused on
\* a generator that had drawn before
C12_UnknownStateRefused ==
    /\ call.op = "generate_custom_session"
    /\ call.primary_state = "asleep"
    /\ call.duration_minutes = 3
    /\ ret.raised = "ValueError"
    /\ generators[call.user_id].rng = 1

\* C13: find_patterns called with a pattern type that is not one of
\* time_of_day, focus_windows, activity_correlation, state_transitions fails
\* with an error naming the bad pattern type, rather than returning a result.
C13_UnknownTypeRaises ==
    (/\ call.op = "find_patterns"
     /\ call.pattern_type \notin {"time_of_day", "focus_windows",
                                  "activity_correlation", "state_transitions"}) =>
        /\ ret.raised # None
        /\ "patterns" \notin DOMAIN ret

\* C14: a window shorter than one whole minute, end_time equal to or earlier
\* than start_time included, is treated as a 1-minute window: get_brain_data
\* at minute granularity returns exactly one point, stamped start_time.
C14_ShortWindowOnePoint ==
    (/\ call.op = "get_brain_data"
     /\ call.granularity = "minute"
     /\ call.end_time - call.start_time < Minute) =>
        /\ ret.raised = None
        /\ Len(ret.data_points) = 1
        /\ ret.data_points[1].time = call.start_time

\* A window that ends a minute before it starts came back as one point
C14_BackwardWindowServed ==
    /\ call.op = "get_brain_data"
    /\ call.granularity = "minute"
    /\ call.end_time < call.start_time
    /\ Len(ret.data_points) = 1

\* C15: under any interleaving of get_generator calls, concurrent first-use
\* registration of a new user included, every generator handed out for the
\* same user id carries the same five bias multipliers, and the bias of a
\* registered generator never changes afterwards.
C15_OneBiasPerUser ==
    [][ /\ \A g, h \in handed' :
             g.user_id = h.user_id => g.baseline_variation = h.baseline_variation
        /\ \A u \in DOMAIN generators :
             /\ u \in DOMAIN generators'
             /\ generators'[u].baseline_variation = generators[u].baseline_variation ]_vars

\* A generator of a user has been handed out while the second thread, which
\* had found the user absent, is about to store its own generator
C15_RacingRegistration ==
    /\ threads["t2"].pc = "create"
    /\ threads["t2"].user_id \in DOMAIN generators
    /\ \E g \in handed : g.user_id = threads["t2"].user_id
    /\ generators[threads["t2"].user_id].rng = 1

\* C16: when the LLM collaborator is unavailable or a completion call raises,
\* during the first or the follow-up completion of a chat request, the request
\* still ends with a textual response instead of failing as a whole.
C16_ChatAlwaysAnswers ==
    (call.op = "chat" /\ call.pc = "done") =>
        /\ ret.raised = None
        /\ ret.response \in {"fallback", "content", "tool_calls"}

\* C17: the segments returned by get_activities are ordered by start time and
\* do not overlap: for consecutive returned segments s and t,
\* s.end_time <= t.start_time.
C17_SegmentsOrdered ==
    call.op = "get_activities" =>
        \A i \in 1..(Len(ret.activities) - 1) :
            /\ ret.activities[i].start_time < ret.activities[i + 1].start_time
            /\ ret.activities[i].end_time <= ret.activities[i + 1].start_time

\* A timeline of three or more segments whose second one begins where the
\* first one ends
C17_SeveralSegments ==
    /\ call.op = "get_activities"
    /\ Len(ret.activities) >= 3
    /\ ret.activities[1].end_time = ret.activities[2].start_time

\* C18 as stated: the segments returned by get_activities are contiguous,
\* each one starting exactly where the one before it ended, for every point
\* sequence and every min_duration_minutes.
C18_SegmentsContiguous ==
    call.op = "get_activities" =>
        \A i \in 1..(Len(ret.activities) - 1) :
            ret.activities[i + 1].start_time = ret.activities[i].end_time

\* C18, amended: between two consecutive returned segments lie exactly the
\* minutes of the runs that were discarded, each of them shorter than
\* max(1, min_duration_minutes); with min_duration_minutes of 1 or less
\* nothing is discarded and the segments are contiguous.
C18_GapsAreDiscardedRuns ==
    call.op = "get_activities" =>
        LET points == [k \in DOMAIN ret.data_points |-> NormalizePoint(ret.data_points[k])]
            minimum == IF call.min_duration_minutes > 1 THEN call.min_duration_minutes ELSE 1
        IN  \A i \in 1..(Len(ret.activities) - 1) :
              LET s == ret.activities[i]
                  t == ret.activities[i + 1]
                  gap == {k \in DOMAIN points :
                            s.end_time <= points[k].time /\ points[k].time < t.start_time}
                  run(k) == {j \in gap :
                               \A l \in gap :
                                  ((j <= l /\ l <= k) \/ (k <= l /\ l <= j)) =>
                                      points[l].activity = points[k].activity}
              IN  /\ t.start_time - s.end_time = Cardinality(gap) * Minute
                  /\ \A k \in gap : Cardinality(run(k)) < minimum
                  /\ minimum = 1 => gap = {}

\* Two returned segments with a discarded run of ten minutes between them
C18_GapBetweenSegments ==
    /\ call.op = "get_activities"
    /\ \E i \in 1..(Len(ret.activities) - 1) :
         ret.activities[i + 1].start_time = ret.activities[i].end_time + 10 * Minute

\* C19: requests for different users share no mutable state: handling a
\* request for user A neither reads nor changes any mutable state (random
\* source, bias, registry entry) that decides the outcome of a request for a
\* different user B.
C19_UsersShareNothing ==
    [][ (call.op = "none" /\ call'.op = "get_brain_data") =>
            /\ random_state' = random_state
            /\ \A b \in Users \ {call'.user_id} :
                 /\ b \in DOMAIN generators <=> b \in DOMAIN generators'
                 /\ b \in DOMAIN generators => generators'[b] = generators[b] ]_vars

\* C20 as stated: each aggregated point's state label is the label of the
\* input point at index floor(W/2) of its chunk, W being the window size of
\* the granularity, also for a final chunk that has fewer than W points.
\* Chunks too short to have a point at that index are left aside here.
C20_LabelAtHalfWindow ==
    (call.op = "get_brain_data" /\ call.granularity # "minute") =>
        LET W == CASE call.granularity = "15min" -> 15
                   [] call.granularity = "hour"  -> 60
                   [] OTHER                      -> 5
        IN  \A k \in DOMAIN ret.data_points :
              LET first == (k - 1) * W
              IN  first + (W \div 2) + 1 <= Len(ret.session) =>
                    ret.data_points[k].state = ret.session[first + (W \div 2) + 1].state

\* C20, amended: each aggregated point's state label is the label of the
\* input point at index floor(n/2) of its chunk, n being the number of points
\* in the chunk: n = W for a full chunk, less for the final one.
C20_LabelAtHalfChunk ==
    (call.op = "get_brain_data" /\ call.granularity # "minute") =>
        LET W == CASE call.granularity = "15min" -> 15
                   [] call.granularity = "hour"  -> 60
                   [] OTHER                      -> 5
        IN  \A k \in DOMAIN ret.data_points :
              LET first == (k - 1) * W
                  n == IF Len(ret.session) - first < W THEN Len(ret.session) - first ELSE W
              IN  /\ n >= 1
                  /\ ret.data_points[k].state = ret.session[first + (n \div 2) + 1].state

\* A three-point session aggregated by five: the label is the one of the
\* second point, and the third point has another state
C20_ShortChunkLabelled ==
    /\ call.op = "get_brain_data"
    /\ call.granularity = "5min"
    /\ Len(ret.session) = 3
    /\ Len(ret.data_points) = 1
    /\ ret.data_points[1].state = ret.session[2].state
    /\ ret.session[3].state # ret.session[2].state

C22_DominantIsFirstMaximum ==
    call.op = "derived_metrics" =>
        \A i \in DOMAIN ret.activities :
            LET segment == ret.activities[i]
                points == call.data_points
                inside == {k \in DOMAIN points :
                             /\ segment.start_time <= points[k].time
                             /\ points[k].time < segment.end_time}
                count(state) == Cardinality({k \in inside : points[k].state = state})
                first(state) == CHOOSE k \in inside :
                                  /\ points[k].state = state
                                  /\ \A j \in inside : points[j].state = state => k <= j
                dominant == segment.dominant_state
            IN  /\ count(dominant) >= 1
                /\ \A k \in inside :
                     /\ count(points[k].state) <= count(dominant)
                     /\ (count(points[k].state) = count(dominant)
                         /\ points[k].state # dominant) =>
                            first(dominant) < first(points[k].state)

\* Eight minutes of meditation: three stressed, two neutral, three relaxed;
\* stressed and relaxed tie and stressed, which came first, is dominant
C22_TieGoesToEarlierState ==
    /\ call.op = "derived_metrics"
    /\ Len(call.data_points) = 8
    /\ call.data_points[1].state = "stressed"
    /\ call.data_points[8].state = "relaxed"
    /\ Len(ret.activities) = 1
    /\ ret.activities[1].dominant_state = "stressed"

\* C23: the time-of-day analysis partitions the window [start_time, end_time)
\* into consecutive non-overlapping buckets that are hour-aligned: every
\* bucket lies inside the single clock hour its score is filed under, only
\* the final bucket is clipped to end_time, and this holds also when
\* start_time is not on an hour boundary.
C23_BucketsInsideTheirHour ==
    (call.op = "find_patterns" /\ call.pattern_type = "time_of_day") =>
        LET buckets == ret.patterns.buckets
        IN  /\ call.start_time < call.end_time =>
                 /\ buckets # <<>>
                 /\ buckets[1].start = call.start_time
                 /\ buckets[Len(buckets)].end = call.end_time
            /\ \A i \in 1..(Len(buckets) - 1) : buckets[i].end = buckets[i + 1].start
            /\ \A i \in DOMAIN buckets :
                 /\ buckets[i].start < buckets[i].end
                 /\ buckets[i].hour = (buckets[i].start % Day) \div Hour
                 /\ buckets[i].start \div Hour = (buckets[i].end - 1) \div Hour


\* C24: every function name declared in TOOLS is dispatched by
\* execute_tool_calls to a handler; no call of a declared tool gets the
\* "Unknown function" error result.
C24_DeclaredToolsDispatched ==
    (call.op = "chat" /\ call.pc \in {"final", "done"}) =>
        \A i \in DOMAIN call.tool_results :
            call.tool_calls[i].name \in TOOLS =>
                call.tool_results[i].content # "unknown_function"

\* C25: execute_tool_calls returns one result per tool call, in call order
\* and carrying the call's id, for every batch; a call whose handler raises,
\* whose name is unknown or whose arguments are malformed gets an error result
\* and the other calls keep theirs.
C25_OneResultPerCall ==
    (call.op = "chat" /\ call.tool_calls # <<>> /\ call.pc \in {"final", "done"}) =>
        /\ Len(call.tool_results) = Len(call.tool_calls)
        /\ \A i \in DOMAIN call.tool_results :
             /\ call.tool_results[i].tool_call_id = call.tool_calls[i].id
             /\ (call.tool_calls[i].name \notin DataTools
                   \/ call.tool_calls[i].arguments = "malformed") =>
                    call.tool_results[i].content \in {"error", "unknown_function"}

\* C30: a chat request makes at most two completions; the second one happens
\* only when the first returned tool calls and only after each of them was
\* executed and its result appended after the assistant message in call order;
\* after the second completion nothing more is executed.
C30_AtMostTwoCompletions ==
    /\ [](call.op = "chat" =>
            /\ call.completions \in 1..2
            /\ call.executed <= Len(call.tool_calls)
            /\ call.pc = "tools" => (call.completions = 1 /\ call.executed = 0)
            /\ call.completions = 2 =>
                 /\ call.pc = "done"
                 /\ call.tool_calls # <<>>
                 /\ call.executed = Len(call.tool_calls)
                 /\ Len(call.messages) = 3 + Len(call.tool_calls)
                 /\ call.messages[3].role = "assistant"
                 /\ call.messages[3].tool_calls = call.tool_calls
                 /\ \A i \in DOMAIN call.tool_calls :
                      /\ call.messages[3 + i].role = "tool"
                      /\ call.messages[3 + i].tool_call_id = call.tool_calls[i].id
                      /\ call.messages[3 + i].content = call.tool_results[i].content)
    /\ [][(call.op = "chat" /\ call.completions = 2) =>
            /\ UNCHANGED <<generators, random_state>>
            /\ call'.op = "none"]_vars

C30_SecondCompletionReturnedCalls ==
    /\ call.op = "chat"
    /\ call.completions = 2
    /\ Len(call.tool_calls) = 2
    /\ ret.raised = None
    /\ ret.response = "tool_calls"

\* C26: every segment returned by get_activities starts strictly before it
\* ends, for every query window, a window that ends at or before its start
\* and a min_duration_minutes of 1 included.
C26_SegmentsStartBeforeEnd ==
    call.op = "get_activities" =>
        \A i \in DOMAIN ret.activities :
            ret.activities[i].start_time < ret.activities[i].end_time

\* C27: for a window of at least one whole minute, get_brain_data at minute
\* granularity returns floor((end_time - start_time) / 1 minute) points,
\* stamped start_time + i minutes for i = 0, 1, ..., on the scenario path and
\* on the custom-session path.
C27_OnePointPerWholeMinute ==
    ( /\ call.op = "get_brain_data"
      /\ call.granularity = "minute"
      /\ call.end_time - call.start_time >= Minute ) =>
        /\ Len(ret.data_points) = (call.end_time - call.start_time) \div Minute
        /\ \A i \in DOMAIN ret.data_points :
             ret.data_points[i].time = call.start_time + (i - 1) * Minute

\* C28: in every compare_time_periods result the cognitive_score of a period
\* is the score formula applied to the state_distribution reported for that
\* period, both figures describing the same generated points.
C28_ScoreMatchesDistribution ==
    call.op = "compare_time_periods" =>
        \A period \in {"period1", "period2"} :
            ret.comparison[period].cognitive_score
                = ClampScore(RawScore100(ret.comparison[period].state_distribution))

====
